---- MODULE Spec2Model ----
(***************************************************************************)
(* Model of the memory-thinking server (index.ts): the knowledge graph     *)
(* store (KnowledgeGraphManager), the thought chain store                  *)
(* (ThinkingManager) and the orchestrator (MemoryThinkingManager).         *)
(*                                                                         *)
(* JavaScript strings that are searched, concatenated or tested for       *)
(* truthiness are sequences of one-character strings, so that toLowerCase, *)
(* includes, the template `ThoughtChain_${id}` and the emptiness test are  *)
(* computed, not assumed.  Objects are records that carry exactly the     *)
(* fields that are present; an absent field reads as undefined.            *)
(***************************************************************************)
EXTENDS Integers, Sequences, FiniteSets, TLC

VARIABLES memoryFile, thinkingFile, now, last, inflight

vars == <<memoryFile, thinkingFile, now, last, inflight>>

(***************************************************************************)
(* Bounds of the model.                                                    *)
(***************************************************************************)
MaxEntities == 2
MaxRelations == 2
MaxObs == 2
MaxBatch == 2
MaxChains == 2
MaxThoughts == 3
MaxNow == 2

(***************************************************************************)
(* Strings.                                                                *)
(***************************************************************************)
UpperChars == <<"A","B","C","D","E","F","G","H","I","J","K","L","M",
                "N","O","P","Q","R","S","T","U","V","W","X","Y","Z">>
LowerChars == <<"a","b","c","d","e","f","g","h","i","j","k","l","m",
                "n","o","p","q","r","s","t","u","v","w","x","y","z">>

\* String.prototype.toLowerCase, one character
toLowerChar(c) ==
  IF \E i \in 1..Len(UpperChars) : UpperChars[i] = c
  THEN LowerChars[CHOOSE i \in 1..Len(UpperChars) : UpperChars[i] = c]
  ELSE c

\* String.prototype.toLowerCase
toLowerCase(s) == [i \in 1..Len(s) |-> toLowerChar(s[i])]

\* String.prototype.includes: q occurs in s as a contiguous substring
includes(s, q) ==
  \E i \in 0..(Len(s) - Len(q)) : SubSeq(s, i + 1, i + Len(q)) = q

\* Array.prototype.includes on an array of strings
arrayIncludes(arr, x) == \E i \in 1..Len(arr) : arr[i] = x

\* a field that is present on the object
Has(obj, field) == field \in DOMAIN obj

ThoughtContextType == <<"T","h","o","u","g","h","t","C","o","n","t","e","x","t">>
ThoughtChainPrefix == <<"T","h","o","u","g","h","t","C","h","a","i","n","_">>
DefaultContext == <<"d","e","f","a","u","l","t">>
HasThinkingProcess == "has_thinking_process"

(***************************************************************************)
(* Knowledge graph store.  The memory file holds one record per line,      *)
(* tagged type "entity" or "relation"; a missing file is ENOENT.           *)
(***************************************************************************)
EmptyGraph == [entities |-> <<>>, relations |-> <<>>]

\* KnowledgeGraphManager.loadGraph
loadGraph(file) ==
  IF ~file.exists
  THEN EmptyGraph
  ELSE [entities  |-> SelectSeq(file.lines,
                         LAMBDA item : Has(item, "type") /\ item.type = "entity"),
        relations |-> SelectSeq(file.lines,
                         LAMBDA item : Has(item, "type") /\ item.type = "relation")]

\* { type: "entity", ...e }: the fields of e win over the tag
entityLine(e) == e @@ [type |-> "entity"]

\* { type: "relation", ...r }
relationLine(r) == r @@ [type |-> "relation"]

\* KnowledgeGraphManager.saveGraph
saveGraph(graph) ==
  [exists |-> TRUE,
   lines  |-> [i \in 1..Len(graph.entities) |-> entityLine(graph.entities[i])]
              \o [i \in 1..Len(graph.relations) |-> relationLine(graph.relations[i])]]

\* existingEntity.name === e.name for some stored entity
entityExists(graph, e) ==
  \E i \in 1..Len(graph.entities) : graph.entities[i].name = e.name

\* faulty variant of the filter: no candidate is dropped
newEntitiesUnfiltered(graph, entities) == entities

\* the filter of createEntities
newEntitiesOf(graph, entities) ==
  SelectSeq(entities, LAMBDA e : ~entityExists(graph, e))

\* existing relation with the same from, to and relationType
relationExists(graph, r) ==
  \E i \in 1..Len(graph.relations) :
     /\ graph.relations[i].from = r.from
     /\ graph.relations[i].to = r.to
     /\ graph.relations[i].relationType = r.relationType

\* faulty variant of the filter: no candidate is dropped
newRelationsUnfiltered(graph, relations) == relations

\* the filter of createRelations
newRelationsOf(graph, relations) ==
  SelectSeq(relations, LAMBDA r : ~relationExists(graph, r))

\* faulty variant of createEntities: a colliding candidate replaces the stored
\* entity of its name
createEntitiesOverwriting(file, entities) ==
  LET graph == loadGraph(file)
      newEntities == SelectSeq(entities, LAMBDA e : ~entityExists(graph, e))
      replaced ==
        [i \in 1..Len(graph.entities) |->
           IF \E k \in 1..Len(entities) : entities[k].name = graph.entities[i].name
           THEN entities[CHOOSE k \in 1..Len(entities) :
                           entities[k].name = graph.entities[i].name]
           ELSE graph.entities[i]]
      graph2 == [graph EXCEPT !.entities = replaced \o newEntities]
  IN  [file |-> saveGraph(graph2), ret |-> newEntities]

\* KnowledgeGraphManager.createEntities: the file written and the value returned
createEntities(file, entities) ==
  LET graph == loadGraph(file)
      newEntities == newEntitiesOf(graph, entities)
      graph2 == [graph EXCEPT !.entities = @ \o newEntities]
  IN  [file |-> saveGraph(graph2), ret |-> newEntities]

\* KnowledgeGraphManager.createRelations: the file written and the value returned
createRelations(file, relations) ==
  LET graph == loadGraph(file)
      newRelations == newRelationsOf(graph, relations)
      graph2 == [graph EXCEPT !.relations = @ \o newRelations]
  IN  [file |-> saveGraph(graph2), ret |-> newRelations]

\* the batch loop of addObservations from item k on: find locates the first
\* entity of that name, a missing entity throws, the entity found is
\* extended in place
RECURSIVE addObservationsFrom(_, _, _, _)
addObservationsFrom(graph, observations, k, results) ==
  IF k > Len(observations)
  THEN [graph |-> graph, results |-> results, thrown |-> FALSE, notFound |-> <<>>]
  ELSE LET o == observations[k]
           found == {i \in 1..Len(graph.entities) :
                       graph.entities[i].name = o.entityName}
       IN  IF found = {}
           THEN [graph |-> graph, results |-> results, thrown |-> TRUE,
                 notFound |-> o.entityName]
           ELSE LET idx == CHOOSE i \in found : \A j \in found : i <= j
                    entity == graph.entities[idx]
                    newObservations ==
                      SelectSeq(o.contents,
                                LAMBDA content : ~arrayIncludes(entity.observations, content))
                    graph2 == [graph EXCEPT !.entities[idx].observations =
                                               @ \o newObservations]
                IN  addObservationsFrom(graph2, observations, k + 1,
                       Append(results, [entityName |-> o.entityName,
                                        addedObservations |-> newObservations]))

\* faulty variant of addObservations: the graph is saved although the loop threw
addObservationsSavingPartial(file, observations) ==
  LET r == addObservationsFrom(loadGraph(file), observations, 1, <<>>)
  IN  [file |-> saveGraph(r.graph), thrown |-> r.thrown, notFound |-> r.notFound,
       ret |-> IF r.thrown THEN <<>> ELSE r.results]

\* KnowledgeGraphManager.addObservations: saveGraph runs once, after the loop,
\* and is not reached when the loop throws
addObservations(file, observations) ==
  LET r == addObservationsFrom(loadGraph(file), observations, 1, <<>>)
  IN  IF r.thrown
      THEN [file |-> file, thrown |-> TRUE, notFound |-> r.notFound, ret |-> <<>>]
      ELSE [file |-> saveGraph(r.graph), thrown |-> FALSE, notFound |-> <<>>,
            ret |-> r.results]

\* the entity filter of searchNodes
entityMatches(e, query) ==
  \/ includes(toLowerCase(e.name), toLowerCase(query))
  \/ includes(toLowerCase(e.entityType), toLowerCase(query))
  \/ \E i \in 1..Len(e.observations) :
        includes(toLowerCase(e.observations[i]), toLowerCase(query))

\* faulty variant of searchNodes: a relation is kept when either endpoint matches
searchNodesEitherEndpoint(file, query) ==
  LET graph == loadGraph(file)
      filteredEntities == SelectSeq(graph.entities, LAMBDA e : entityMatches(e, query))
      filteredEntityNames ==
        {filteredEntities[i].name : i \in 1..Len(filteredEntities)}
      filteredRelations ==
        SelectSeq(graph.relations,
                  LAMBDA r : r.from \in filteredEntityNames \/ r.to \in filteredEntityNames)
  IN  [entities |-> filteredEntities, relations |-> filteredRelations]

\* KnowledgeGraphManager.searchNodes
searchNodes(file, query) ==
  LET graph == loadGraph(file)
      filteredEntities == SelectSeq(graph.entities, LAMBDA e : entityMatches(e, query))
      filteredEntityNames ==
        {filteredEntities[i].name : i \in 1..Len(filteredEntities)}
      filteredRelations ==
        SelectSeq(graph.relations,
                  LAMBDA r : r.from \in filteredEntityNames /\ r.to \in filteredEntityNames)
  IN  [entities |-> filteredEntities, relations |-> filteredRelations]

(***************************************************************************)
(* Thought chain store.  The thinking file holds one document, the map     *)
(* from chain id to chain; a missing file is ENOENT.                       *)
(***************************************************************************)
\* the truthiness of an optional number: present and not 0
truthyNumber(obj, field) == Has(obj, field) /\ obj[field] # 0

\* the truthiness of an optional string: present and not ""
truthyString(obj, field) == Has(obj, field) /\ obj[field] # <<>>

\* the truthiness of an optional boolean: present and true
truthyBoolean(obj, field) == Has(obj, field) /\ obj[field]

\* ThinkingManager.loadThinking
loadThinking(file) == IF ~file.exists THEN <<>> ELSE file.chains

\* ThinkingManager.saveThinking
saveThinking(thinking) == [exists |-> TRUE, chains |-> thinking]

\* the chain object created for an id that has none
newChain(id, context, createdAt) ==
  [id |-> id, context |-> context, thoughts |-> <<>>, branches |-> <<>>,
   createdAt |-> createdAt, updatedAt |-> createdAt]

\* faulty variant of the routing: a branch thought is also put on thoughts
routeThoughtOntoBoth(chain, input, thoughtWithTimestamp) ==
  LET chain1 == [chain EXCEPT !.thoughts = Append(@, thoughtWithTimestamp)]
  IN  IF truthyNumber(input, "branchFromThought") /\ truthyString(input, "branchId")
      THEN IF input.branchId \in DOMAIN chain.branches
           THEN [chain1 EXCEPT !.branches[input.branchId] = Append(@, thoughtWithTimestamp)]
           ELSE [chain1 EXCEPT !.branches = @ @@ (input.branchId :> <<thoughtWithTimestamp>>)]
      ELSE chain1

\* faulty variant of the routing: a branch thought is not stored
routeThoughtDroppingBranch(chain, input, thoughtWithTimestamp) ==
  IF truthyNumber(input, "branchFromThought") /\ truthyString(input, "branchId")
  THEN chain
  ELSE [chain EXCEPT !.thoughts = Append(@, thoughtWithTimestamp)]

\* faulty variant of the routing: a revision overwrites the record it revises
routeThoughtRevisingInPlace(chain, input, thoughtWithTimestamp) ==
  IF truthyNumber(input, "branchFromThought") /\ truthyString(input, "branchId")
  THEN IF input.branchId \in DOMAIN chain.branches
       THEN [chain EXCEPT !.branches[input.branchId] = Append(@, thoughtWithTimestamp)]
       ELSE [chain EXCEPT !.branches = @ @@ (input.branchId :> <<thoughtWithTimestamp>>)]
  ELSE IF truthyBoolean(input, "isRevision") /\ truthyNumber(input, "revisesThought")
            /\ input.revisesThought \in 1..Len(chain.thoughts)
       THEN [chain EXCEPT !.thoughts[input.revisesThought] = thoughtWithTimestamp]
       ELSE [chain EXCEPT !.thoughts = Append(@, thoughtWithTimestamp)]

\* the routing of storeThought: into branches[branchId] or onto thoughts
routeThought(chain, input, thoughtWithTimestamp) ==
  IF truthyNumber(input, "branchFromThought") /\ truthyString(input, "branchId")
  THEN IF input.branchId \in DOMAIN chain.branches
       THEN [chain EXCEPT !.branches[input.branchId] = Append(@, thoughtWithTimestamp)]
       ELSE [chain EXCEPT !.branches = @ @@ (input.branchId :> <<thoughtWithTimestamp>>)]
  ELSE [chain EXCEPT !.thoughts = Append(@, thoughtWithTimestamp)]

\* faulty variant of storeThought: the id is always a generated one
storeThoughtOnNewChain(file, input, generated, createdAt, updatedAt, timestamp) ==
  LET thinking == loadThinking(file)
      context == IF truthyString(input, "context") THEN input.context ELSE DefaultContext
      id == IF generated # <<>> THEN generated ELSE <<"k", "0">>
      thinking1 == IF id \in DOMAIN thinking
                   THEN thinking
                   ELSE thinking @@ (id :> newChain(id, context, createdAt))
      chain == [thinking1[id] EXCEPT !.updatedAt = updatedAt]
      thoughtWithTimestamp == [timestamp |-> timestamp] @@ input
      chain2 == routeThought(chain, input, thoughtWithTimestamp)
  IN  [file |-> saveThinking([thinking1 EXCEPT ![id] = chain2]), ret |-> id]

\* ThinkingManager.storeThought: the file written and the id returned.
\* generated is the value of generateId(); createdAt, updatedAt and timestamp
\* are the values read from Date.now()
storeThought(file, input, generated, createdAt, updatedAt, timestamp) ==
  LET thinking == loadThinking(file)
      context == IF truthyString(input, "context") THEN input.context ELSE DefaultContext
      id == IF truthyString(input, "branchId") THEN input.branchId ELSE generated
      thinking1 == IF id \in DOMAIN thinking
                   THEN thinking
                   ELSE thinking @@ (id :> newChain(id, context, createdAt))
      chain == [thinking1[id] EXCEPT !.updatedAt = updatedAt]
      thoughtWithTimestamp == [timestamp |-> timestamp] @@ input
      chain2 == routeThought(chain, input, thoughtWithTimestamp)
  IN  [file |-> saveThinking([thinking1 EXCEPT ![id] = chain2]), ret |-> id]

(***************************************************************************)
(* Wrapper (wrapper script of the server): the check of the memory file    *)
(* and of the thinking file that runs before the server is spawned.        *)
(***************************************************************************)
\* the file after fs.writeFileSync(memoryFilePath, '{}'): one line, an object
\* without fields
EmptyObjectFile == [exists |-> TRUE, lines |-> << <<>> >>]

\* JSON.parse(memoryContent) does not throw.  The content is the lines of
\* saveGraph joined by line breaks, each the JSON text of one object with no
\* line break inside; a JSON text is one value, so the content parses when it
\* is one line and throws at the second line otherwise
parsesAsJSON(lines) == Len(lines) = 1

\* the memory file after the wrapper's check: created when missing, reset
\* when empty or when JSON.parse throws, left alone otherwise
memoryFileChecked(file) ==
  IF ~file.exists THEN EmptyObjectFile
  ELSE IF file.lines = <<>> THEN EmptyObjectFile
  ELSE IF parsesAsJSON(file.lines) THEN file
  ELSE EmptyObjectFile

\* the thinking file after the wrapper's check: saveThinking writes one JSON
\* value, which parses; a missing file is created as {}
thinkingFileChecked(file) ==
  IF ~file.exists THEN [exists |-> TRUE, chains |-> <<>>] ELSE file

(***************************************************************************)
(* Orchestrator.                                                           *)
(***************************************************************************)
\* The values of the model carry their JavaScript type in their sort: a string
\* is a sequence of characters, a number an integer, a boolean a BOOLEAN.  A
\* field whose value is of another type than the one declared for it holds a
\* record [typeof, truthy], the two things validateInput looks at, and is
\* listed in the "mistyped" set of the object.  NaN is [typeof |-> "number",
\* truthy |-> FALSE].
DeclaredType ==
  [thought |-> "string", thoughtNumber |-> "number",
   totalThoughts |-> "number", nextThoughtNeeded |-> "boolean"]

Mistyped(data) == IF Has(data, "mistyped") THEN data.mistyped ELSE {}

\* typeof data[field]
typeof(data, field) ==
  IF ~Has(data, field) THEN "undefined"
  ELSE IF field \in Mistyped(data) THEN data[field].typeof
  ELSE DeclaredType[field]

\* !data[field]
falsy(data, field) ==
  IF ~Has(data, field) THEN TRUE
  ELSE IF field \in Mistyped(data) THEN ~data[field].truthy
  ELSE IF DeclaredType[field] = "string" THEN data[field] = <<>>
  ELSE IF DeclaredType[field] = "number" THEN data[field] = 0
  ELSE ~data[field]

\* the arguments of a tools/call request that has none
Undefined == [undefined |-> TRUE]

\* faulty variant of validateInput: the numbers are looked at before the thought
validateInputNumbersFirst(data) ==
  IF Has(data, "undefined")
  THEN "Cannot read properties of undefined (reading 'thoughtNumber')"
  ELSE IF falsy(data, "thoughtNumber") \/ typeof(data, "thoughtNumber") # "number"
  THEN "Invalid thoughtNumber: must be a number"
  ELSE IF falsy(data, "totalThoughts") \/ typeof(data, "totalThoughts") # "number"
  THEN "Invalid totalThoughts: must be a number"
  ELSE IF falsy(data, "thought") \/ typeof(data, "thought") # "string"
  THEN "Invalid thought: must be a string"
  ELSE IF typeof(data, "nextThoughtNeeded") # "boolean"
  THEN "Invalid nextThoughtNeeded: must be a boolean"
  ELSE ""

\* MemoryThinkingManager.validateInput: the message of the error thrown, or ""
\* when the input passes
validateInput(data) ==
  IF Has(data, "undefined")
  THEN "Cannot read properties of undefined (reading 'thought')"
  ELSE IF falsy(data, "thought") \/ typeof(data, "thought") # "string"
  THEN "Invalid thought: must be a string"
  ELSE IF falsy(data, "thoughtNumber") \/ typeof(data, "thoughtNumber") # "number"
  THEN "Invalid thoughtNumber: must be a number"
  ELSE IF falsy(data, "totalThoughts") \/ typeof(data, "totalThoughts") # "number"
  THEN "Invalid totalThoughts: must be a number"
  ELSE IF typeof(data, "nextThoughtNeeded") # "boolean"
  THEN "Invalid nextThoughtNeeded: must be a boolean"
  ELSE ""

\* faulty variant of the adjustment: totalThoughts is left as sent
normalizeNever(input) == input

\* the adjustment of totalThoughts
normalize(input) ==
  IF input.thoughtNumber > input.totalThoughts
  THEN [input EXCEPT !.totalThoughts = input.thoughtNumber]
  ELSE input

\* the relevantContext field of the result: null, or the two counts
Null == [null |-> TRUE]

relevantContextOf(file, input) ==
  IF truthyBoolean(input, "retrieveFromMemory") /\ truthyString(input, "context")
  THEN LET found == searchNodes(file, input.context)
       IN  [entities |-> Len(found.entities), relations |-> Len(found.relations)]
  ELSE Null

\* faulty variant of the graph writes: the relation is not created
storeInsightEntityOnly(file, input, thoughtChainId) ==
  IF truthyBoolean(input, "storeInMemory") /\ truthyString(input, "context")
  THEN createEntities(file,
          <<[name |-> input.context,
             entityType |-> ThoughtContextType,
             observations |-> <<input.thought>>]>>).file
  ELSE file

\* faulty variant of the graph writes: storeInMemory is not looked at
storeInsightUngated(file, input, thoughtChainId) ==
  IF truthyString(input, "context")
  THEN LET file1 == createEntities(file,
                       <<[name |-> input.context,
                          entityType |-> ThoughtContextType,
                          observations |-> <<input.thought>>]>>).file
       IN  createRelations(file1,
              <<[from |-> input.context,
                 to |-> ThoughtChainPrefix \o thoughtChainId,
                 relationType |-> HasThinkingProcess]>>).file
  ELSE file

\* faulty variant of storeInsight: the relation is written without the entity
storeInsightRelationOnly(file, input, thoughtChainId) ==
  IF truthyBoolean(input, "storeInMemory") /\ truthyString(input, "context")
  THEN createRelations(file,
          <<[from |-> input.context,
             to |-> ThoughtChainPrefix \o thoughtChainId,
             relationType |-> HasThinkingProcess]>>).file
  ELSE file

\* the two graph writes of processThought
storeInsight(file, input, thoughtChainId) ==
  IF truthyBoolean(input, "storeInMemory") /\ truthyString(input, "context")
  THEN LET file1 == createEntities(file,
                       <<[name |-> input.context,
                          entityType |-> ThoughtContextType,
                          observations |-> <<input.thought>>]>>).file
       IN  createRelations(file1,
              <<[from |-> input.context,
                 to |-> ThoughtChainPrefix \o thoughtChainId,
                 relationType |-> HasThinkingProcess]>>).file
  ELSE file

\* the message of the error a file system call rejects with
IOError == "EIO: i/o error"

\* the awaited calls of processThought, each of which can reject when the
\* file system fails it; a call that rejects leaves its file as it was
Calls == {"searchNodes", "storeThought", "createEntities", "createRelations"}

\* faulty variant of the catch clause: the response is not flagged
failureResponseUnflagged(message) ==
  [error |-> message, status |-> "failed"]

\* the response of the catch clause
failureResponse(message) ==
  [isError |-> TRUE, error |-> message, status |-> "failed"]

\* the graph file after the awaited graph writes that ran to completion
\* before the first one that rejected
storeInsightUntilFault(file, input, thoughtChainId, faults) ==
  IF "createEntities" \in faults
  THEN file
  ELSE createEntities(file,
          <<[name |-> input.context,
             entityType |-> ThoughtContextType,
             observations |-> <<input.thought>>]>>).file

\* faulty variant of processThought: the thought is stored before the
\* retrieval, so that a failed retrieval leaves the thought in the chain store
processThoughtStoringFirst(memory, thinking, request, generated, createdAt, updatedAt, timestamp, faults) ==
  IF validateInput(request) # ""
  THEN [memoryFile |-> memory, thinkingFile |-> thinking, appended |-> FALSE,
        response |-> failureResponse(validateInput(request))]
  ELSE LET input == normalize(request)
           retrieves == truthyBoolean(input, "retrieveFromMemory")
                          /\ truthyString(input, "context")
           stores == truthyBoolean(input, "storeInMemory")
                          /\ truthyString(input, "context")
           stored == storeThought(thinking, input, generated,
                                  createdAt, updatedAt, timestamp)
       IN  IF "storeThought" \in faults
           THEN [memoryFile |-> memory, thinkingFile |-> thinking,
                 appended |-> FALSE, response |-> failureResponse(IOError)]
           ELSE IF retrieves /\ "searchNodes" \in faults
           THEN [memoryFile |-> memory, thinkingFile |-> stored.file,
                 appended |-> TRUE, response |-> failureResponse(IOError)]
           ELSE IF stores /\ faults \cap {"createEntities", "createRelations"} # {}
           THEN [memoryFile |-> storeInsightUntilFault(memory, input, stored.ret, faults),
                 thinkingFile |-> stored.file,
                 appended |-> TRUE, response |-> failureResponse(IOError)]
           ELSE [memoryFile |-> storeInsight(memory, input, stored.ret),
                 thinkingFile |-> stored.file,
                 appended |-> TRUE,
                 response |-> [thoughtNumber |-> input.thoughtNumber,
                               totalThoughts |-> input.totalThoughts,
                               nextThoughtNeeded |-> input.nextThoughtNeeded,
                               thoughtChainId |-> stored.ret,
                               relevantContext |-> relevantContextOf(memory, input),
                               contextStored |-> truthyBoolean(input, "storeInMemory")]]

\* faulty variant of processThought: the graph is searched after the insight
\* is stored
processThoughtRetrievingLast(memory, thinking, request, generated, createdAt, updatedAt, timestamp, faults) ==
  IF validateInput(request) # ""
  THEN [memoryFile |-> memory, thinkingFile |-> thinking, appended |-> FALSE,
        response |-> failureResponse(validateInput(request))]
  ELSE LET input == normalize(request)
           retrieves == truthyBoolean(input, "retrieveFromMemory")
                          /\ truthyString(input, "context")
           stores == truthyBoolean(input, "storeInMemory")
                          /\ truthyString(input, "context")
           stored == storeThought(thinking, input, generated,
                                  createdAt, updatedAt, timestamp)
           thoughtChainId == stored.ret
           relevantContext ==
             relevantContextOf(storeInsight(memory, input, stored.ret), input)
       IN  IF (retrieves /\ "searchNodes" \in faults) \/ "storeThought" \in faults
           THEN [memoryFile |-> memory, thinkingFile |-> thinking,
                 appended |-> FALSE, response |-> failureResponse(IOError)]
           ELSE IF stores /\ faults \cap {"createEntities", "createRelations"} # {}
           THEN [memoryFile |-> storeInsightUntilFault(memory, input,
                                                       thoughtChainId, faults),
                 thinkingFile |-> stored.file,
                 appended |-> TRUE, response |-> failureResponse(IOError)]
           ELSE [memoryFile |-> storeInsight(memory, input, thoughtChainId),
                 thinkingFile |-> stored.file,
                 appended |-> TRUE,
                 response |-> [thoughtNumber |-> input.thoughtNumber,
                               totalThoughts |-> input.totalThoughts,
                               nextThoughtNeeded |-> input.nextThoughtNeeded,
                               thoughtChainId |-> thoughtChainId,
                               relevantContext |-> relevantContext,
                               contextStored |-> truthyBoolean(input, "storeInMemory")]]

\* MemoryThinkingManager.processThought: the two files, the response, and
\* whether storeThought ran to completion.  faults is the set of awaited calls
\* that reject in this request.
processThought(memory, thinking, request, generated, createdAt, updatedAt, timestamp, faults) ==
  IF validateInput(request) # ""
  THEN [memoryFile |-> memory, thinkingFile |-> thinking, appended |-> FALSE,
        response |-> failureResponse(validateInput(request))]
  ELSE LET input == normalize(request)
           retrieves == truthyBoolean(input, "retrieveFromMemory")
                          /\ truthyString(input, "context")
           stores == truthyBoolean(input, "storeInMemory")
                          /\ truthyString(input, "context")
           relevantContext == relevantContextOf(memory, input)
           stored == storeThought(thinking, input, generated,
                                  createdAt, updatedAt, timestamp)
           thoughtChainId == stored.ret
       IN  IF (retrieves /\ "searchNodes" \in faults) \/ "storeThought" \in faults
           THEN [memoryFile |-> memory, thinkingFile |-> thinking,
                 appended |-> FALSE, response |-> failureResponse(IOError)]
           ELSE IF stores /\ faults \cap {"createEntities", "createRelations"} # {}
           THEN [memoryFile |-> storeInsightUntilFault(memory, input,
                                                       thoughtChainId, faults),
                 thinkingFile |-> stored.file,
                 appended |-> TRUE, response |-> failureResponse(IOError)]
           ELSE [memoryFile |-> storeInsight(memory, input, thoughtChainId),
                 thinkingFile |-> stored.file,
                 appended |-> TRUE,
                 response |-> [thoughtNumber |-> input.thoughtNumber,
                               totalThoughts |-> input.totalThoughts,
                               nextThoughtNeeded |-> input.nextThoughtNeeded,
                               thoughtChainId |-> thoughtChainId,
                               relevantContext |-> relevantContext,
                               contextStored |-> truthyBoolean(input, "storeInMemory")]]

(***************************************************************************)
(* Inputs.  Each specification draws the arguments of its calls from the   *)
(* pools below.                                                            *)
(***************************************************************************)
\* the arrays of at most MaxBatch elements of S
BatchesOf(S) == UNION {[1..n -> S] : n \in 0..MaxBatch}

NameA == <<"a">>
NameAb == <<"A","b">>
ObsX == <<"x">>
ObsB == <<"B">>
TypeT == <<"t">>

\* candidates of createEntities: one without observations, one with one
EntityPool ==
  {[name |-> NameA, entityType |-> TypeT, observations |-> <<>>],
   [name |-> NameAb, entityType |-> TypeT, observations |-> <<ObsX>>]}

RelationPool ==
  {[from |-> NameA, to |-> NameAb, relationType |-> "knows"]}

\* contents lists: one string, one string twice, two strings
ContentsPool == {<<ObsX>>, <<ObsX, ObsX>>, <<ObsB, ObsX>>}

ObservationPool ==
  {[entityName |-> NameA, contents |-> c] : c \in ContentsPool}
    \cup {[entityName |-> NameAb, contents |-> <<ObsX>>]}

\* the one observation item of the runs that are not about observations
SmallObservationPool == {[entityName |-> NameA, contents |-> <<ObsX>>]}

QueryPool == {<<>>, <<"a">>, <<"B">>, <<"x">>}

\* the ids generateId() can return: MaxChains of them, so that a fresh one
\* exists whenever a chain may still be created
IdDigits == <<"1","2","3","4","5","6","7","8","9">>
GenIds == {<<"k", IdDigits[i]>> : i \in 1..MaxChains}

\* a chain id of the caller's own choice
UserId == <<"u">>

\* an object with the optional field set, or without it
WithField(obj, field, values) == {obj} \cup {obj @@ (field :> v) : v \in values}

\* all objects obtained from those of objs by setting or leaving out the field
WithFields(objs, field, values) == UNION {WithField(obj, field, values) : obj \in objs}

\* the request of the graph store runs: an insight stored under a topic that
\* is also the name of a candidate of EntityPool
GraphRequests ==
  {[thought |-> ObsX, thoughtNumber |-> 1, totalThoughts |-> 1,
    nextThoughtNeeded |-> FALSE, context |-> NameA, storeInMemory |-> TRUE]}

\* the requests of the chain store runs: one thought with branchFromThought
\* absent, 0 or 1 and branchId absent, empty, of the caller's choice or the id
\* of a stored chain; and a second thought that continues a stored chain
ChainRequests ==
  WithFields(
    WithFields(
      {[thought |-> ObsX, thoughtNumber |-> 1, totalThoughts |-> 1,
        nextThoughtNeeded |-> TRUE]},
      "branchFromThought", {0, 1}),
    "branchId", {<<>>, UserId} \cup DOMAIN loadThinking(thinkingFile))
  \cup
  {[thought |-> ObsB, thoughtNumber |-> 2, totalThoughts |-> 1,
    nextThoughtNeeded |-> FALSE, branchId |-> id] :
     id \in DOMAIN loadThinking(thinkingFile)}

\* a value of another type than the field's declared one
Mistyping(type, truthy) == [typeof |-> type, truthy |-> truthy]

\* the fields validateInput looks at, and what a request can hold in each:
\* nothing, the falsy value of the declared type, a valid value, NaN, null, or
\* a truthy value of the named other type
ValidatedFields == {"thought", "thoughtNumber", "totalThoughts", "nextThoughtNeeded"}

KindsOf ==
  [thought           |-> {"absent", "valid", "number"},
   thoughtNumber     |-> {"absent", "falsy", "valid", "string"},
   totalThoughts     |-> {"absent", "valid", "string"},
   nextThoughtNeeded |-> {"absent", "valid", "string"}]

ValidValue ==
  [thought |-> ObsX, thoughtNumber |-> 1, totalThoughts |-> 1,
   nextThoughtNeeded |-> FALSE]

FalsyValue ==
  [thought |-> <<>>, thoughtNumber |-> 0, totalThoughts |-> 0,
   nextThoughtNeeded |-> FALSE]

MistypedKinds == {"string", "number", "NaN", "null"}

SlotValue(field, kind) ==
  IF kind = "valid" THEN ValidValue[field]
  ELSE IF kind = "falsy" THEN FalsyValue[field]
  ELSE IF kind = "NaN" THEN Mistyping("number", FALSE)
  ELSE IF kind = "null" THEN Mistyping("object", FALSE)
  ELSE Mistyping(kind, TRUE)

\* the arguments object that holds, in each validated field, a value of the
\* given kind, and asks for retrieval and for an insight under topic "a"
ArgumentsOf(kinds) ==
  LET present == {f \in ValidatedFields : kinds[f] # "absent"}
      wrong == {f \in present : kinds[f] \in MistypedKinds}
      fields == [f \in present |-> SlotValue(f, kinds[f])]
      flags == [context |-> NameA, storeInMemory |-> TRUE, retrieveFromMemory |-> TRUE]
  IN  IF wrong = {} THEN fields @@ flags
      ELSE fields @@ flags @@ [mistyped |-> wrong]

AllValid == [f \in ValidatedFields |-> "valid"]

\* the requests of the validation runs, by the kinds of their fields: every
\* combination of kinds, and the empty string, NaN or null in one field of an
\* otherwise valid request
ValidationKinds ==
  {k \in [ValidatedFields -> UNION {KindsOf[f] : f \in ValidatedFields}] :
     \A f \in ValidatedFields : k[f] \in KindsOf[f]}
    \cup {[AllValid EXCEPT !.thought = "falsy"],
          [AllValid EXCEPT !.thoughtNumber = "NaN"],
          [AllValid EXCEPT !.thought = "null"],
          [AllValid EXCEPT !.nextThoughtNeeded = "null"]}

\* the numbers a request can carry as thoughtNumber and totalThoughts
NumberPool == {-1, 0, 1, 2}

\* the requests of the runs about the two numbers
NumberRequests ==
  {[thought |-> ObsX, thoughtNumber |-> n, totalThoughts |-> m,
    nextThoughtNeeded |-> TRUE] : n, m \in NumberPool}

\* the requests of the insight runs: two thoughts, each stored under one of
\* two topics, on a chain of its own or on a stored chain
InsightRequests ==
  WithFields(
    {[thought |-> t, thoughtNumber |-> 1, totalThoughts |-> 1,
      nextThoughtNeeded |-> TRUE, context |-> c, storeInMemory |-> TRUE] :
       t \in {ObsX, ObsB}, c \in {NameA, NameAb}},
    "branchId", DOMAIN loadThinking(thinkingFile))

\* the requests of the gating runs: the four combinations of the two flags
\* with a topic, both flags set without a topic, and both set with the empty
\* string as topic
GatingRequests ==
  {[thought |-> ObsX, thoughtNumber |-> 1, totalThoughts |-> 1,
    nextThoughtNeeded |-> TRUE, context |-> NameA,
    storeInMemory |-> s, retrieveFromMemory |-> r] : s, r \in BOOLEAN}
  \cup
  {[thought |-> ObsX, thoughtNumber |-> 1, totalThoughts |-> 1,
    nextThoughtNeeded |-> TRUE, storeInMemory |-> TRUE, retrieveFromMemory |-> TRUE],
   [thought |-> ObsX, thoughtNumber |-> 1, totalThoughts |-> 1,
    nextThoughtNeeded |-> TRUE, context |-> <<>>,
    storeInMemory |-> TRUE, retrieveFromMemory |-> TRUE]}

\* the awaited calls that write the graph
GraphWrites == {"createEntities", "createRelations"}

\* a thought with nothing else, and one that retrieves and stores under a topic
PlainRequest ==
  [thought |-> ObsX, thoughtNumber |-> 1, totalThoughts |-> 1,
   nextThoughtNeeded |-> TRUE]

TopicRequest ==
  PlainRequest @@ [context |-> NameA, storeInMemory |-> TRUE,
                   retrieveFromMemory |-> TRUE]

\* the requests of the fault runs: the two above, and each without its thought
FaultRequests ==
  {PlainRequest, TopicRequest}
    \cup {[f \in DOMAIN r \ {"thought"} |-> r[f]] : r \in {PlainRequest, TopicRequest}}

\* one awaited call fails, or none
SingleFaults == {{}} \cup {{call} : call \in Calls}

\* the requests of the append runs: a plain thought or one under a topic, on
\* a chain of its own, at the end of a stored chain, or in a branch of one
AppendRequests ==
  {PlainRequest, TopicRequest}
    \cup {PlainRequest @@ [branchId |-> id] : id \in DOMAIN loadThinking(thinkingFile)}
    \cup {TopicRequest @@ [branchId |-> id, branchFromThought |-> 1] :
            id \in DOMAIN loadThinking(thinkingFile)}

\* a second thought, and a thought that revises thought 1
SecondRequest ==
  [thought |-> ObsB, thoughtNumber |-> 2, totalThoughts |-> 2,
   nextThoughtNeeded |-> TRUE]

RevisionRequest ==
  SecondRequest @@ [isRevision |-> TRUE, revisesThought |-> 1]

\* the requests of the history runs: a first thought on a chain of its own,
\* and on each stored chain a second thought, a revision of thought 1 and a
\* branch from thought 1; a revision can also come without branchId
HistoryRequests ==
  {PlainRequest, RevisionRequest}
    \cup {r @@ [branchId |-> id] :
            r \in {SecondRequest, RevisionRequest}, id \in DOMAIN loadThinking(thinkingFile)}
    \cup {PlainRequest @@ [branchId |-> id, branchFromThought |-> 1] :
            id \in DOMAIN loadThinking(thinkingFile)}

\* the callers whose calls can overlap: two server processes on the same
\* files, or two requests in flight in one process
Callers == {1, 2}

\* the thoughts two overlapping storeThought calls store: on a chain of its
\* own, or on the caller's chain
RaceRequests == {PlainRequest, PlainRequest @@ [branchId |-> UserId]}

\* the requests of the clock runs: thoughts for the caller's chain, on its
\* main line or in its branch
ClockRequests ==
  {PlainRequest @@ [branchId |-> UserId],
   PlainRequest @@ [branchId |-> UserId, branchFromThought |-> 1]}

(***************************************************************************)
(* State and operations.                                                   *)
(***************************************************************************)
Init ==
  /\ memoryFile = [exists |-> FALSE, lines |-> <<>>]
  /\ thinkingFile = [exists |-> FALSE, chains |-> <<>>]
  /\ now = 0
  /\ last = [op |-> "none"]
  /\ inflight = [c \in Callers |-> [pc |-> "idle"]]

\* the sizes the model stops at
GraphWithinBounds(file) ==
  LET graph == loadGraph(file)
  IN  /\ Len(graph.entities) <= MaxEntities
      /\ Len(graph.relations) <= MaxRelations
      /\ \A i \in 1..Len(graph.entities) :
            Len(graph.entities[i].observations) <= MaxObs

\* the number of elements of the sequences f[k], k in keys
RECURSIVE SumLen(_, _)
SumLen(f, keys) ==
  IF keys = {} THEN 0
  ELSE LET k == CHOOSE x \in keys : TRUE
       IN  Len(f[k]) + SumLen(f, keys \ {k})

\* the number of thoughts of a chain, main line and branches
RECURSIVE StoredThoughts(_, _)
StoredThoughts(thinking, ids) ==
  IF ids = {} THEN 0
  ELSE LET id == CHOOSE x \in ids : TRUE
       IN  Len(thinking[id].thoughts)
             + SumLen(thinking[id].branches, DOMAIN thinking[id].branches)
             + StoredThoughts(thinking, ids \ {id})

ThinkingWithinBounds(file) ==
  LET thinking == loadThinking(file)
  IN  /\ Cardinality(DOMAIN thinking) <= MaxChains
      /\ StoredThoughts(thinking, DOMAIN thinking) <= MaxThoughts

\* the call that starts repeats the call before it: same operation, same argument
Repeats(op, arg) == last.op = op /\ last.arg = arg

\* a call of createEntities
CreateEntities(entities) ==
  LET r == createEntities(memoryFile, entities)
  IN  /\ GraphWithinBounds(r.file)
      /\ memoryFile' = r.file
      /\ last' = [op |-> "createEntities", arg |-> entities, ret |-> r.ret,
                  again |-> Repeats("createEntities", entities)]
      /\ UNCHANGED <<thinkingFile, now, inflight>>

\* a call of createRelations
CreateRelations(relations) ==
  LET r == createRelations(memoryFile, relations)
  IN  /\ GraphWithinBounds(r.file)
      /\ memoryFile' = r.file
      /\ last' = [op |-> "createRelations", arg |-> relations, ret |-> r.ret,
                  again |-> Repeats("createRelations", relations)]
      /\ UNCHANGED <<thinkingFile, now, inflight>>

\* a call of addObservations
AddObservations(observations) ==
  LET r == addObservations(memoryFile, observations)
  IN  /\ GraphWithinBounds(r.file)
      /\ memoryFile' = r.file
      /\ last' = [op |-> "addObservations", arg |-> observations,
                  ret |-> r.ret, thrown |-> r.thrown, notFound |-> r.notFound]
      /\ UNCHANGED <<thinkingFile, now, inflight>>

\* a call of searchNodes
SearchNodes(query) ==
  /\ last' = [op |-> "searchNodes", arg |-> query,
              ret |-> searchNodes(memoryFile, query)]
  /\ UNCHANGED <<memoryFile, thinkingFile, now, inflight>>

\* the values generateId() can return to this request: an id no chain has
\* (the random suffix); generateId is not called when branchId is truthy or
\* validation fails
GeneratedIds(request) ==
  IF validateInput(request) # "" \/ truthyString(request, "branchId")
  THEN {<<>>}
  ELSE GenIds \ DOMAIN loadThinking(thinkingFile)

\* a tools/call request served by processThought; the three clock reads of
\* storeThought advance the clock by at most maxTick, and the awaited calls in
\* faults reject
ProcessThought(request, maxTick, faults) ==
  \E generated \in GeneratedIds(request) :
  \E createdAt \in now..(now + maxTick) :
  \E updatedAt \in createdAt..(now + maxTick) :
  \E timestamp \in updatedAt..(now + maxTick) :
    LET r == processThought(memoryFile, thinkingFile, request, generated,
                            createdAt, updatedAt, timestamp, faults)
    IN  /\ timestamp <= MaxNow
        /\ GraphWithinBounds(r.memoryFile)
        /\ ThinkingWithinBounds(r.thinkingFile)
        /\ memoryFile' = r.memoryFile
        /\ thinkingFile' = r.thinkingFile
        /\ now' = IF r.appended THEN timestamp ELSE now
        /\ last' = [op |-> "processThought", arg |-> request, ret |-> r.response,
                    faults |-> faults, appended |-> r.appended]
        /\ UNCHANGED inflight

\* two store calls work on the same file: the chain store has one, the graph
\* store the other
sameFile(op, other) == (op = "storeThought") <=> (other = "storeThought")

\* a store mutation starts: its awaited load returns the file as it is now
Load(c, op, arg) ==
  /\ inflight[c].pc = "idle"
  /\ inflight' = [inflight EXCEPT ![c] =
        [pc |-> "loaded", op |-> op, arg |-> arg,
         loaded |-> IF op = "storeThought" THEN thinkingFile ELSE memoryFile,
         stale |-> FALSE]]
  /\ UNCHANGED <<memoryFile, thinkingFile, now, last>>

\* what a call mutates and writes back is what its own load returned (the
\* local graph, the local chains); graphReloaded takes the file as it is at
\* the write
graphReloaded(call) == IF call.op = "storeThought" THEN thinkingFile ELSE memoryFile

graph(call) == call.loaded

\* the values generateId() can return to a storeThought call in flight
FreshIds(call) ==
  IF call.op = "storeThought" /\ ~truthyString(call.arg, "branchId")
  THEN GenIds \ (DOMAIN loadThinking(thinkingFile) \cup DOMAIN loadThinking(call.loaded))
  ELSE {<<>>}

\* the mutation of the loaded content and the file that saveGraph or
\* saveThinking writes
mutated(call, generated) ==
  CASE call.op = "createEntities" -> createEntities(graph(call), call.arg)
    [] call.op = "createRelations" -> createRelations(graph(call), call.arg)
    [] call.op = "storeThought" ->
         storeThought(graph(call), call.arg, generated, now, now, now)

\* the call rewrites the whole file and returns; a call that loaded the same
\* file and has not written yet now holds stale content
Rewrite(c) ==
  /\ inflight[c].pc = "loaded"
  /\ \E generated \in FreshIds(inflight[c]) :
       LET call == inflight[c]
           r == mutated(call, generated)
       IN  /\ IF call.op = "storeThought"
              THEN thinkingFile' = r.file /\ UNCHANGED memoryFile
              ELSE memoryFile' = r.file /\ UNCHANGED thinkingFile
           /\ inflight' = [d \in Callers |->
                 IF d = c
                 THEN [pc |-> "done", op |-> call.op, arg |-> call.arg,
                       loaded |-> call.loaded, stale |-> call.stale, ret |-> r.ret]
                 ELSE IF inflight[d].pc = "loaded" /\ sameFile(inflight[d].op, call.op)
                      THEN [inflight[d] EXCEPT !.stale = TRUE]
                      ELSE inflight[d]]
  /\ UNCHANGED <<now, last>>

\* the success response of processThought
successResponse(input, thoughtChainId, relevantContext) ==
  [thoughtNumber |-> input.thoughtNumber,
   totalThoughts |-> input.totalThoughts,
   nextThoughtNeeded |-> input.nextThoughtNeeded,
   thoughtChainId |-> thoughtChainId,
   relevantContext |-> relevantContext,
   contextStored |-> truthyBoolean(input, "storeInMemory")]

\* the CallToolRequestSchema handler is called with a request: processThought
\* runs up to its first await, or to its failure response when validation
\* throws.  The handler is an async function that holds no lock and waits for
\* no earlier call, so a request starts whatever the state of the other one
Handler(c, request) ==
  /\ inflight[c].pc = "idle"
  /\ inflight' = [inflight EXCEPT ![c] =
        IF validateInput(request) # ""
        THEN [pc |-> "done", arg |-> request,
              ret |-> failureResponse(validateInput(request))]
        ELSE [pc |-> IF truthyBoolean(request, "retrieveFromMemory")
                          /\ truthyString(request, "context")
                     THEN "searchNodes" ELSE "loadThinking",
              arg |-> request, input |-> normalize(request),
              relevantContext |-> Null, loaded |-> <<>>, thoughtChainId |-> <<>>]]
  /\ UNCHANGED <<memoryFile, thinkingFile, now, last>>

\* the values generateId() can return to a request in flight in storeThought
FreshChainIds(call) ==
  IF call.pc = "saveThinking" /\ ~truthyString(call.input, "branchId")
  THEN GenIds \ (DOMAIN loadThinking(thinkingFile) \cup DOMAIN loadThinking(call.loaded))
  ELSE {<<>>}

\* the awaited file operation of a request in flight completes and
\* processThought runs on to its next await, or to its response: the call
\* after the step, and the two files after it
resumed(call, generated) ==
  LET input == call.input
      keep(next) == [call |-> next, memoryFile |-> memoryFile,
                     thinkingFile |-> thinkingFile]
  IN  CASE call.pc = "searchNodes" ->
             keep([call EXCEPT !.pc = "loadThinking",
                               !.relevantContext = relevantContextOf(memoryFile, input)])
        [] call.pc = "loadThinking" ->
             keep([call EXCEPT !.pc = "saveThinking", !.loaded = thinkingFile])
        [] call.pc = "saveThinking" ->
             LET stored == storeThought(call.loaded, input, generated, now, now, now)
             IN  [call |-> IF truthyBoolean(input, "storeInMemory")
                                /\ truthyString(input, "context")
                           THEN [call EXCEPT !.pc = "loadGraph",
                                             !.thoughtChainId = stored.ret]
                           ELSE [pc |-> "done", arg |-> call.arg,
                                 ret |-> successResponse(input, stored.ret,
                                                         call.relevantContext)],
                  memoryFile |-> memoryFile, thinkingFile |-> stored.file]
        [] call.pc = "loadGraph" ->
             keep([call EXCEPT !.pc = "saveGraph", !.loaded = memoryFile])
        [] call.pc = "saveGraph" ->
             [call |-> [call EXCEPT !.pc = "loadGraphAgain"],
              memoryFile |-> createEntities(call.loaded,
                                <<[name |-> input.context,
                                   entityType |-> ThoughtContextType,
                                   observations |-> <<input.thought>>]>>).file,
              thinkingFile |-> thinkingFile]
        [] call.pc = "loadGraphAgain" ->
             keep([call EXCEPT !.pc = "saveGraphAgain", !.loaded = memoryFile])
        [] call.pc = "saveGraphAgain" ->
             [call |-> [pc |-> "done", arg |-> call.arg,
                        ret |-> successResponse(input, call.thoughtChainId,
                                                call.relevantContext)],
              memoryFile |-> createRelations(call.loaded,
                                <<[from |-> input.context,
                                   to |-> ThoughtChainPrefix \o call.thoughtChainId,
                                   relationType |-> HasThinkingProcess]>>).file,
              thinkingFile |-> thinkingFile]

Resume(c) ==
  /\ inflight[c].pc \notin {"idle", "done"}
  /\ \E generated \in FreshChainIds(inflight[c]) :
       LET r == resumed(inflight[c], generated)
       IN  /\ inflight' = [inflight EXCEPT ![c] = r.call]
           /\ memoryFile' = r.memoryFile
           /\ thinkingFile' = r.thinkingFile
  /\ UNCHANGED <<now, last>>

\* the server is started through the wrapper
WrapperStart ==
  /\ memoryFile' = memoryFileChecked(memoryFile)
  /\ thinkingFile' = thinkingFileChecked(thinkingFile)
  /\ last' = [op |-> "wrapper"]
  /\ UNCHANGED <<now, inflight>>

\* the graph store under its four mutating callers
NextGraph ==
  \/ \E entities \in BatchesOf(EntityPool) : CreateEntities(entities)
  \/ \E relations \in BatchesOf(RelationPool) : CreateRelations(relations)
  \/ \E observations \in BatchesOf(SmallObservationPool) : AddObservations(observations)
  \/ \E request \in GraphRequests : ProcessThought(request, 0, {})

SpecGraph == Init /\ [][NextGraph]_vars

\* addObservations on entities created one at a time
NextObs ==
  \/ \E e \in EntityPool : CreateEntities(<<e>>)
  \/ \E observations \in BatchesOf(ObservationPool) : AddObservations(observations)

SpecObs == Init /\ [][NextObs]_vars

\* searchNodes over graphs built by the store's callers
NextSearch ==
  \/ \E e \in EntityPool : CreateEntities(<<e>>)
  \/ \E r \in RelationPool : CreateRelations(<<r>>)
  \/ \E request \in GraphRequests : ProcessThought(request, 0, {})
  \/ \E query \in QueryPool : SearchNodes(query)

SpecSearch == Init /\ [][NextSearch]_vars

\* the chain store under orchestrator requests
NextChain == \E request \in ChainRequests : ProcessThought(request, 0, {})

SpecChain == Init /\ [][NextChain]_vars

\* validation: requests of every kind, served while the file system works or
\* while it fails every awaited call
NextValidate ==
  \E faults \in {{}, Calls} :
     \/ \E kinds \in ValidationKinds : ProcessThought(ArgumentsOf(kinds), 0, faults)
     \/ ProcessThought(Undefined, 0, faults)

SpecValidate == Init /\ [][NextValidate]_vars

\* requests that differ in thoughtNumber and totalThoughts
NextNumbers == \E request \in NumberRequests : ProcessThought(request, 0, {})

SpecNumbers == Init /\ [][NextNumbers]_vars

\* insights stored under topics
NextInsight == \E request \in InsightRequests : ProcessThought(request, 0, {})

SpecInsight == Init /\ [][NextInsight]_vars

\* the two flags: requests served while the file system works, while the
\* graph search fails, or while the graph writes fail
NextGating ==
  \E request \in GatingRequests :
  \E faults \in {{}, {"searchNodes"}, GraphWrites} :
     ProcessThought(request, 0, faults)

SpecGating == Init /\ [][NextGating]_vars

\* requests served while one awaited call fails, or none
NextFaults ==
  \E faults \in SingleFaults :
     \/ \E request \in FaultRequests : ProcessThought(request, 0, faults)
     \/ ProcessThought(Undefined, 0, faults)

SpecFaults == Init /\ [][NextFaults]_vars

\* appends of every kind, served while the file system works, while the chain
\* write fails, or while the second graph write fails
NextAppend ==
  \E request \in AppendRequests :
  \E faults \in {{}, {"storeThought"}, {"createRelations"}} :
     ProcessThought(request, 0, faults)

SpecAppend == Init /\ [][NextAppend]_vars

\* chains that grow by thoughts, revisions and branches
NextHistory == \E request \in HistoryRequests : ProcessThought(request, 0, {})

SpecHistory == Init /\ [][NextHistory]_vars

\* two server processes on the same files, one store mutation each, their
\* loads and rewrites in any order
NextRace ==
  \/ \E c \in Callers, e \in EntityPool : Load(c, "createEntities", <<e>>)
  \/ \E c \in Callers, r \in RelationPool : Load(c, "createRelations", <<r>>)
  \/ \E c \in Callers, request \in RaceRequests : Load(c, "storeThought", request)
  \/ \E c \in Callers : Rewrite(c)

SpecRace == Init /\ [][NextRace]_vars

\* one server process and two tools/call requests on its transport
NextOverlap ==
  \/ \E c \in Callers, request \in {PlainRequest, TopicRequest} : Handler(c, request)
  \/ \E c \in Callers : Resume(c)

SpecOverlap == Init /\ [][NextOverlap]_vars

\* sequential appends to one chain while the clock runs: Date.now() returns
\* the value it returned last, or the next one
NextClock == \E request \in ClockRequests : ProcessThought(request, 1, {})

SpecClock == Init /\ [][NextClock]_vars

\* the graph store under its callers, with restarts through the wrapper
NextRestart ==
  \/ \E e \in EntityPool : CreateEntities(<<e>>)
  \/ \E r \in RelationPool : CreateRelations(<<r>>)
  \/ ProcessThought(TopicRequest, 0, {})
  \/ WrapperStart

SpecRestart == Init /\ [][NextRestart]_vars

(***************************************************************************)
(* Properties of the graph store.                                          *)
(***************************************************************************)
Entities == loadGraph(memoryFile).entities
Relations == loadGraph(memoryFile).relations

\* the candidate a stored entity line was written from
EntityOf(line) ==
  [name |-> line.name, entityType |-> line.entityType,
   observations |-> line.observations]

NameIn(entities, name) == \E i \in 1..Len(entities) : entities[i].name = name

SameTriple(r1, r2) ==
  r1.from = r2.from /\ r1.to = r2.to /\ r1.relationType = r2.relationType

NoDuplicates(seq) == \A i, j \in 1..Len(seq) : seq[i] = seq[j] => i = j

IsPrefix(s, t) == Len(s) <= Len(t) /\ SubSeq(t, 1, Len(s)) = s

Elements(seq) == {seq[i] : i \in 1..Len(seq)}

\* C1: the persisted graph never holds two entities with the same name,
\* whatever createEntities, createRelations, addObservations and the
\* orchestrator were called with.
C1_EntityNamesUnique ==
  \A i, j \in 1..Len(Entities) : Entities[i].name = Entities[j].name => i = j

\* C2: the persisted graph never holds two relations with equal
\* (from, to, relationType).
C2_RelationTriplesUnique ==
  \A i, j \in 1..Len(Relations) : SameTriple(Relations[i], Relations[j]) => i = j

\* C3: a call of addObservations that returns leaves no entity with the same
\* observation string twice, keeps every stored observation at its position,
\* and returns per batch item only strings of its contents that the entity
\* did not hold before the call.
C3_ObservationsAppendOnlyDeduplicated ==
  [][(last'.op = "addObservations" /\ ~last'.thrown) =>
       LET before == loadGraph(memoryFile).entities
           after == loadGraph(memoryFile').entities
           arg == last'.arg
           ret == last'.ret
       IN  /\ Len(after) = Len(before)
           /\ \A i \in 1..Len(after) : NoDuplicates(after[i].observations)
           /\ \A i \in 1..Len(before) :
                 IsPrefix(before[i].observations, after[i].observations)
           /\ Len(ret) = Len(arg)
           /\ \A k \in 1..Len(ret) :
                 /\ ret[k].entityName = arg[k].entityName
                 /\ Elements(ret[k].addedObservations) \subseteq Elements(arg[k].contents)
                 /\ \A i \in 1..Len(before) :
                       before[i].name = arg[k].entityName =>
                         Elements(ret[k].addedObservations)
                           \cap Elements(before[i].observations) = {}
  ]_vars

\* C4: createEntities returns exactly the candidates it appended: the graph
\* after the call is the graph before it followed by the returned candidates,
\* every candidate whose name was absent is returned and stored, and a call
\* that repeats the call before it returns the empty sequence and leaves the
\* file as it was.
C4_CreateEntitiesReturnsAppended ==
  [][last'.op = "createEntities" =>
       LET before == loadGraph(memoryFile).entities
           after == loadGraph(memoryFile').entities
           arg == last'.arg
           ret == last'.ret
       IN  /\ Len(after) = Len(before) + Len(ret)
           /\ \A i \in 1..Len(before) : after[i] = before[i]
           /\ \A k \in 1..Len(ret) : EntityOf(after[Len(before) + k]) = ret[k]
           /\ \A k \in 1..Len(arg) :
                 ~NameIn(before, arg[k].name) =>
                   /\ \E j \in 1..Len(ret) : ret[j] = arg[k]
                   /\ \E i \in 1..Len(after) : EntityOf(after[i]) = arg[k]
           /\ last'.again => (ret = <<>> /\ memoryFile' = memoryFile)
  ]_vars

\* a repeated call with one candidate, on the graph that holds just that candidate
C4_Witness ==
  /\ last.op = "createEntities"
  /\ last.again
  /\ Len(last.arg) = 1
  /\ last.ret = <<>>
  /\ Len(Entities) = 1
  /\ EntityOf(Entities[1]) = last.arg[1]

\* C5: the second of two consecutive identical calls of createRelations
\* returns the empty sequence and leaves the number of relations unchanged.
C5_CreateRelationsIdempotent ==
  [][(last'.op = "createRelations" /\ last'.again) =>
       /\ last'.ret = <<>>
       /\ Len(loadGraph(memoryFile').relations) = Len(loadGraph(memoryFile).relations)
  ]_vars

\* a repeated call with a batch of two triples
C5_Witness ==
  /\ last.op = "createRelations"
  /\ last.again
  /\ Len(last.arg) = 2
  /\ Len(Relations) = 2

\* C6: a candidate of createEntities whose name is already stored is dropped:
\* no returned entity has its name, every stored entity is still at its place
\* with its entityType and observations, and the relations are untouched.
C6_CollisionDropsCandidate ==
  [][last'.op = "createEntities" =>
       LET before == loadGraph(memoryFile).entities
           after == loadGraph(memoryFile').entities
           arg == last'.arg
           ret == last'.ret
       IN  \A k \in 1..Len(arg) :
             NameIn(before, arg[k].name) =>
               /\ ~NameIn(ret, arg[k].name)
               /\ Len(after) >= Len(before)
               /\ \A i \in 1..Len(before) :
                     before[i].name = arg[k].name =>
                       /\ after[i].entityType = before[i].entityType
                       /\ after[i].observations = before[i].observations
                       /\ after[i].name = before[i].name
               /\ Cardinality({i \in 1..Len(after) : after[i].name = arg[k].name})
                    = Cardinality({i \in 1..Len(before) : before[i].name = arg[k].name})
               /\ loadGraph(memoryFile').relations = loadGraph(memoryFile).relations
  ]_vars

\* a candidate dropped although it differs from the stored entity of its name
\* in entityType and in observations, in a graph that has relations
C6_Witness ==
  /\ last.op = "createEntities"
  /\ Relations # <<>>
  /\ \E k \in 1..Len(last.arg) : \E i \in 1..Len(Entities) :
        /\ Entities[i].name = last.arg[k].name
        /\ Entities[i].entityType # last.arg[k].entityType
        /\ Entities[i].observations # last.arg[k].observations
        /\ ~NameIn(last.ret, last.arg[k].name)

\* C7: a call of addObservations with an item that names an entity absent
\* from the graph throws for an absent entity and leaves the file as it was.
C7_AddObservationsAllOrNothing ==
  [][last'.op = "addObservations" =>
       LET before == loadGraph(memoryFile).entities
           arg == last'.arg
       IN  (\E k \in 1..Len(arg) : ~NameIn(before, arg[k].entityName)) =>
             /\ last'.thrown
             /\ ~NameIn(before, last'.notFound)
             /\ memoryFile' = memoryFile
  ]_vars

\* a call that threw on its second item after a first item that named a stored
\* entity and carried an observation the entity does not hold
C7_Witness ==
  /\ last.op = "addObservations"
  /\ last.thrown
  /\ Len(last.arg) = 2
  /\ last.notFound = last.arg[2].entityName
  /\ \E i \in 1..Len(Entities) :
        /\ Entities[i].name = last.arg[1].entityName
        /\ ~(Elements(last.arg[1].contents) \subseteq Elements(Entities[i].observations))

\* C8: searchNodes returns only relations whose two endpoints are names of
\* returned entities, returns every stored relation of that kind, and leaves
\* the file as it was.
C8_SearchRelationsInduced ==
  [][last'.op = "searchNodes" =>
       LET ret == last'.ret
           names == {ret.entities[i].name : i \in 1..Len(ret.entities)}
           stored == loadGraph(memoryFile).relations
       IN  /\ memoryFile' = memoryFile
           /\ \A j \in 1..Len(ret.relations) :
                 ret.relations[j].from \in names /\ ret.relations[j].to \in names
           /\ \A i \in 1..Len(stored) :
                 (stored[i].from \in names /\ stored[i].to \in names) =>
                   \E j \in 1..Len(ret.relations) : ret.relations[j] = stored[i]
           /\ \A i \in 1..Len(ret.entities) :
                 \E j \in 1..Len(loadGraph(memoryFile).entities) :
                    loadGraph(memoryFile).entities[j] = ret.entities[i]
  ]_vars

\* a search that returned a relation and left out a stored relation with one
\* endpoint among the returned entities and the other not
C8_Witness ==
  /\ last.op = "searchNodes"
  /\ last.ret.relations # <<>>
  /\ \E i \in 1..Len(Relations) :
        /\ NameIn(last.ret.entities, Relations[i].from)
        /\ ~NameIn(last.ret.entities, Relations[i].to)
        /\ ~\E j \in 1..Len(last.ret.relations) : last.ret.relations[j] = Relations[i]

(***************************************************************************)
(* Properties of the chain store.                                          *)
(***************************************************************************)
Chains == loadThinking(thinkingFile)

\* a response of processThought that is not the failure response
Succeeded(response) == ~Has(response, "isError")

\* the main line of a chain, empty for an id that has no chain
ThoughtsOf(thinking, id) ==
  IF id \in DOMAIN thinking THEN thinking[id].thoughts ELSE <<>>

\* the branches of a chain, none for an id that has no chain
BranchesOf(thinking, id) ==
  IF id \in DOMAIN thinking THEN thinking[id].branches ELSE <<>>

\* a branch of a chain, empty when the chain or the branch does not exist
BranchOf(thinking, id, branchId) ==
  IF branchId \in DOMAIN BranchesOf(thinking, id)
  THEN BranchesOf(thinking, id)[branchId]
  ELSE <<>>

\* the stored record is the request with a timestamp added
StoredFrom(record, request) ==
  /\ DOMAIN record = DOMAIN request \cup {"timestamp"}
  /\ \A f \in DOMAIN request \ {"totalThoughts", "timestamp"} : record[f] = request[f]

\* the step appended one record of the request to the branch and left every
\* main line as it was
RoutedToBranch(before, after, id, request) ==
  /\ id \in DOMAIN after
  /\ request.branchId \in DOMAIN after[id].branches
  /\ LET old == BranchOf(before, id, request.branchId)
         new == after[id].branches[request.branchId]
     IN  /\ Len(new) = Len(old) + 1
         /\ SubSeq(new, 1, Len(old)) = old
         /\ StoredFrom(new[Len(new)], request)
  /\ \A c \in DOMAIN after : after[c].thoughts = ThoughtsOf(before, c)

\* the step appended one record of the request to the main line of the chain
\* and left every branches mapping as it was
RoutedToMainLine(before, after, id, request) ==
  /\ id \in DOMAIN after
  /\ LET old == ThoughtsOf(before, id)
         new == after[id].thoughts
     IN  /\ Len(new) = Len(old) + 1
         /\ SubSeq(new, 1, Len(old)) = old
         /\ StoredFrom(new[Len(new)], request)
  /\ \A c \in DOMAIN after : after[c].branches = BranchesOf(before, c)

\* C9 as stated: a request that carries both branchFromThought and branchId
\* is stored in branches[branchId] of its chain and changes no main line; a
\* request that lacks either is stored on the main line and changes no
\* branches mapping.
C9_BranchRoutingByPresence ==
  [][(last'.op = "processThought" /\ Succeeded(last'.ret)) =>
       LET request == last'.arg
           before == loadThinking(thinkingFile)
           after == loadThinking(thinkingFile')
           id == last'.ret.thoughtChainId
       IN  IF Has(request, "branchFromThought") /\ Has(request, "branchId")
           THEN RoutedToBranch(before, after, id, request)
           ELSE RoutedToMainLine(before, after, id, request)
  ]_vars

\* C9 amended: the routing goes by the truthiness of the two fields.  A
\* request whose branchFromThought is a number other than 0 and whose branchId
\* is a non-empty string is stored in branches[branchId] of its chain and
\* changes no main line; every other request, branchFromThought 0 and
\* branchId "" included, is stored on the main line and changes no branches
\* mapping.
C9_BranchRoutingByTruthiness ==
  [][(last'.op = "processThought" /\ Succeeded(last'.ret)) =>
       LET request == last'.arg
           before == loadThinking(thinkingFile)
           after == loadThinking(thinkingFile')
           id == last'.ret.thoughtChainId
       IN  IF truthyNumber(request, "branchFromThought") /\ truthyString(request, "branchId")
           THEN RoutedToBranch(before, after, id, request)
           ELSE RoutedToMainLine(before, after, id, request)
  ]_vars

\* a branch thought stored in a chain that keeps its main-line thought
C9_Witness ==
  /\ last.op = "processThought"
  /\ Succeeded(last.ret)
  /\ truthyNumber(last.arg, "branchFromThought")
  /\ truthyString(last.arg, "branchId")
  /\ last.ret.thoughtChainId \in DOMAIN Chains
  /\ LET chain == Chains[last.ret.thoughtChainId]
     IN  /\ Len(chain.thoughts) = 1
         /\ last.arg.branchId \in DOMAIN chain.branches
         /\ Len(chain.branches[last.arg.branchId]) = 1

\* C10: a request that passes the id of a stored chain as branchId, without
\* branchFromThought, appends its thought at the end of that chain's thoughts,
\* creates no chain, changes no other chain and returns that id.
C10_ContinuingAChain ==
  [][(last'.op = "processThought" /\ Succeeded(last'.ret)
        /\ Has(last'.arg, "branchId")
        /\ last'.arg.branchId \in DOMAIN loadThinking(thinkingFile)
        /\ ~Has(last'.arg, "branchFromThought")) =>
       LET request == last'.arg
           before == loadThinking(thinkingFile)
           after == loadThinking(thinkingFile')
           id == request.branchId
       IN  /\ last'.ret.thoughtChainId = id
           /\ DOMAIN after = DOMAIN before
           /\ \A c \in DOMAIN before \ {id} : after[c] = before[c]
           /\ Len(after[id].thoughts) = Len(before[id].thoughts) + 1
           /\ SubSeq(after[id].thoughts, 1, Len(before[id].thoughts)) = before[id].thoughts
           /\ StoredFrom(after[id].thoughts[Len(after[id].thoughts)], request)
           /\ after[id].branches = before[id].branches
  ]_vars

\* a chain with a generated id that holds three thoughts in call order, the
\* second and the third sent with that id as branchId
C10_Witness ==
  /\ last.op = "processThought"
  /\ Succeeded(last.ret)
  /\ last.ret.thoughtChainId \in GenIds
  /\ DOMAIN Chains = {last.ret.thoughtChainId}
  /\ LET thoughts == Chains[last.ret.thoughtChainId].thoughts
     IN  /\ Len(thoughts) = 3
         /\ ~Has(thoughts[1], "branchId")
         /\ thoughts[2].branchId = last.ret.thoughtChainId
         /\ thoughts[3].branchId = last.ret.thoughtChainId
         /\ ~Has(thoughts[3], "branchFromThought")
         /\ thoughts[2].thought # thoughts[3].thought
         /\ thoughts[3].thought = last.arg.thought

\* C11: when the store holds one chain C with a main-line thought, a request
\* that branches from one of C's thoughts (branchFromThought = N, N at most the
\* length of C's main line) under a branchId B stores its thought in
\* branches[B] of chain C and creates no other chain, so that C holds both its
\* main line and the branch.
C11_BranchRecordedInSourceChain ==
  [][(/\ last'.op = "processThought"
      /\ Succeeded(last'.ret)
      /\ truthyNumber(last'.arg, "branchFromThought")
      /\ truthyString(last'.arg, "branchId")
      /\ Cardinality(DOMAIN loadThinking(thinkingFile)) = 1
      /\ \A C \in DOMAIN loadThinking(thinkingFile) :
            /\ Len(loadThinking(thinkingFile)[C].thoughts) >= 1
            /\ last'.arg.branchFromThought <= Len(loadThinking(thinkingFile)[C].thoughts))
     =>
       LET request == last'.arg
           before == loadThinking(thinkingFile)
           after == loadThinking(thinkingFile')
       IN  /\ DOMAIN after = DOMAIN before
           /\ \A C \in DOMAIN before : RoutedToBranch(before, after, C, request)
  ]_vars

(***************************************************************************)
(* Properties of the orchestrator.                                         *)
(***************************************************************************)
\* the field holds no usable value of the given type: it is missing, of
\* another type, or (checkFalsy) the falsy value of its type
Offends(request, field, type, checkFalsy) ==
  \/ ~Has(request, field)
  \/ typeof(request, field) # type
  \/ checkFalsy /\ falsy(request, field)

\* the first field that offends, in the order thought, thoughtNumber,
\* totalThoughts, nextThoughtNeeded; "" when none does
FirstOffending(request) ==
  IF Offends(request, "thought", "string", TRUE) THEN "thought"
  ELSE IF Offends(request, "thoughtNumber", "number", TRUE) THEN "thoughtNumber"
  ELSE IF Offends(request, "totalThoughts", "number", TRUE) THEN "totalThoughts"
  ELSE IF Offends(request, "nextThoughtNeeded", "boolean", FALSE) THEN "nextThoughtNeeded"
  ELSE ""

\* the messages by the field they name
ErrorNaming ==
  [thought           |-> "Invalid thought: must be a string",
   thoughtNumber     |-> "Invalid thoughtNumber: must be a number",
   totalThoughts     |-> "Invalid totalThoughts: must be a number",
   nextThoughtNeeded |-> "Invalid nextThoughtNeeded: must be a boolean"]

\* C12: a request in which thought is missing, empty or not a string,
\* thoughtNumber or totalThoughts is missing, 0 or not a number, or
\* nextThoughtNeeded is not a boolean gets the failure response {error,
\* status: "failed"} with isError true, its error is the message that names
\* the first offending field in the order thought, thoughtNumber,
\* totalThoughts, nextThoughtNeeded, and it touches neither file: both are
\* left as they were, and no failing file system call shows in the response.
C12_ValidationFailureTouchesNoStore ==
  [][(/\ last'.op = "processThought"
      /\ ~Has(last'.arg, "undefined")
      /\ FirstOffending(last'.arg) # "")
     =>
       /\ Has(last'.ret, "isError")
       /\ last'.ret.isError = TRUE
       /\ last'.ret.status = "failed"
       /\ last'.ret.error = ErrorNaming[FirstOffending(last'.arg)]
       /\ DOMAIN last'.ret = {"isError", "error", "status"}
       /\ memoryFile' = memoryFile
       /\ thinkingFile' = thinkingFile
  ]_vars

\* both stores hold data, every file system call fails, and a request whose
\* thoughtNumber is a string and whose nextThoughtNeeded is missing is
\* answered with the message that names thoughtNumber
C12_Witness ==
  /\ last.op = "processThought"
  /\ last.faults = Calls
  /\ Has(last.arg, "thought")
  /\ ~Offends(last.arg, "thought", "string", TRUE)
  /\ typeof(last.arg, "thoughtNumber") = "string"
  /\ ~Has(last.arg, "nextThoughtNeeded")
  /\ last.ret.error = ErrorNaming.thoughtNumber
  /\ Len(Entities) = 1
  /\ DOMAIN Chains # {}

\* every record of the chain store, main lines and branches
StoredRecords ==
  UNION {Elements(Chains[id].thoughts) : id \in DOMAIN Chains}
    \cup UNION {UNION {Elements(Chains[id].branches[b]) : b \in DOMAIN Chains[id].branches} :
                  id \in DOMAIN Chains}

\* C13: every Thought of the chain store has thoughtNumber >= 1 and
\* totalThoughts >= 1, because validation rejects a request in which either
\* is zero, negative or not an integer.
C13_StoredNumbersPositive ==
  \A record \in StoredRecords :
     record.thoughtNumber >= 1 /\ record.totalThoughts >= 1

Max(a, b) == IF a > b THEN a ELSE b

\* C14: the response to a valid request carries totalThoughts =
\* max(thoughtNumber, totalThoughts) of the request, thoughtNumber as sent,
\* and the record appended to the chain carries the same totalThoughts.
C14_TotalThoughtsWidened ==
  [][(last'.op = "processThought" /\ Succeeded(last'.ret)) =>
       LET request == last'.arg
           after == loadThinking(thinkingFile')
           thoughts == after[last'.ret.thoughtChainId].thoughts
       IN  /\ last'.ret.totalThoughts = Max(request.thoughtNumber, request.totalThoughts)
           /\ last'.ret.totalThoughts >= request.totalThoughts
           /\ last'.ret.thoughtNumber = request.thoughtNumber
           /\ Len(thoughts) >= 1
           /\ thoughts[Len(thoughts)].totalThoughts = last'.ret.totalThoughts
           /\ thoughts[Len(thoughts)].thoughtNumber = request.thoughtNumber
  ]_vars

\* thought 2 of 1 answered and stored as thought 2 of 2, after a thought 1 of
\* 2 that was stored as sent
C14_Witness ==
  /\ last.op = "processThought"
  /\ Succeeded(last.ret)
  /\ last.arg.thoughtNumber = 2
  /\ last.arg.totalThoughts = 1
  /\ last.ret.totalThoughts = 2
  /\ Chains[last.ret.thoughtChainId].thoughts[1].totalThoughts = 2
  /\ \E id \in DOMAIN Chains :
        /\ Chains[id].thoughts[1].thoughtNumber = 1
        /\ Chains[id].thoughts[1].totalThoughts = 2

\* the graph of the file holds this entity, all three fields equal
HoldsEntity(file, e) ==
  \E i \in 1..Len(loadGraph(file).entities) : EntityOf(loadGraph(file).entities[i]) = e

\* the graph of the file holds this relation
HoldsRelation(file, r) ==
  \E i \in 1..Len(loadGraph(file).relations) : SameTriple(loadGraph(file).relations[i], r)

\* C15: a valid request with storeInMemory true and a context c, without
\* branchId, served without a fault while the graph has no entity named c,
\* returns contextStored true and the id of a chain that did not exist before,
\* and leaves in the graph the entity {name: c, entityType: "ThoughtContext",
\* observations: [thought]} and the relation {from: c, to: "ThoughtChain_" +
\* id, relationType: "has_thinking_process"}.
C15_InsightOnFreshTopic ==
  [][(/\ last'.op = "processThought"
      /\ validateInput(last'.arg) = ""
      /\ last'.faults = {}
      /\ truthyBoolean(last'.arg, "storeInMemory")
      /\ truthyString(last'.arg, "context")
      /\ ~Has(last'.arg, "branchId")
      /\ ~NameIn(loadGraph(memoryFile).entities, last'.arg.context))
     =>
       /\ Succeeded(last'.ret)
       /\ last'.ret.contextStored = TRUE
       /\ last'.ret.thoughtChainId \notin DOMAIN loadThinking(thinkingFile)
       /\ last'.ret.thoughtChainId \in DOMAIN loadThinking(thinkingFile')
       /\ HoldsEntity(memoryFile',
            [name |-> last'.arg.context, entityType |-> ThoughtContextType,
             observations |-> <<last'.arg.thought>>])
       /\ HoldsRelation(memoryFile',
            [from |-> last'.arg.context,
             to |-> ThoughtChainPrefix \o last'.ret.thoughtChainId,
             relationType |-> HasThinkingProcess])
  ]_vars

\* a second topic stored next to a first: two ThoughtContext entities, each
\* with the thought of its request, and two relations
C15_Witness ==
  /\ last.op = "processThought"
  /\ Succeeded(last.ret)
  /\ last.ret.contextStored
  /\ Len(Entities) = 2
  /\ Len(Relations) = 2
  /\ Entities[2].name = last.arg.context
  /\ Entities[2].entityType = ThoughtContextType
  /\ Entities[2].observations = <<last.arg.thought>>
  /\ Relations[2].to = ThoughtChainPrefix \o last.ret.thoughtChainId

\* C16: after a successful request with storeInMemory true and a context c,
\* whether or not an entity named c existed before, an entity named c of the
\* graph has the request's thought among its observations.
C16_InsightAlwaysRecorded ==
  [][(/\ last'.op = "processThought"
      /\ Succeeded(last'.ret)
      /\ truthyBoolean(last'.arg, "storeInMemory")
      /\ truthyString(last'.arg, "context"))
     =>
       \E i \in 1..Len(loadGraph(memoryFile').entities) :
          /\ loadGraph(memoryFile').entities[i].name = last'.arg.context
          /\ arrayIncludes(loadGraph(memoryFile').entities[i].observations,
                           last'.arg.thought)
  ]_vars

\* the request asks for retrieval and names a topic
Retrieves(request) ==
  truthyBoolean(request, "retrieveFromMemory") /\ truthyString(request, "context")

\* the request asks for an insight and names a topic
Stores(request) ==
  truthyBoolean(request, "storeInMemory") /\ truthyString(request, "context")

\* C18: the two flags gate independently.  A request with storeInMemory false
\* or without a context leaves the memory file as it was, and succeeds even
\* while the graph writes fail; a request with retrieveFromMemory false or
\* without a context reports relevantContext null, and succeeds even while the
\* graph search fails.  A request that asks for retrieval under a topic reports
\* the counts whether or not it stores, and one that asks for an insight under
\* a topic leaves an entity of that name in the graph whether or not it
\* retrieves.
C18_FlagsGateIndependently ==
  [][(last'.op = "processThought" /\ validateInput(last'.arg) = "") =>
       LET request == last'.arg
       IN  /\ ~Stores(request) => memoryFile' = memoryFile
           /\ (~Stores(request) /\ last'.faults = GraphWrites) => Succeeded(last'.ret)
           /\ (~Retrieves(request) /\ last'.faults = {"searchNodes"}) => Succeeded(last'.ret)
           /\ Succeeded(last'.ret) =>
                (Has(last'.ret.relevantContext, "null") <=> ~Retrieves(request))
           /\ (Stores(request) /\ last'.faults \cap GraphWrites = {}
                 /\ (Retrieves(request) => last'.faults = {})) =>
                /\ Succeeded(last'.ret)
                /\ NameIn(loadGraph(memoryFile').entities, request.context)
           /\ (Retrieves(request) /\ last'.faults = {}) =>
                /\ Succeeded(last'.ret)
                /\ last'.ret.relevantContext.entities
                     = Len(searchNodes(memoryFile, request.context).entities)
  ]_vars

\* a request that retrieves without storing, on a graph that holds the topic:
\* it reports one entity and leaves the file as it was
C18_Witness ==
  /\ last.op = "processThought"
  /\ Succeeded(last.ret)
  /\ Retrieves(last.arg)
  /\ ~Stores(last.arg)
  /\ last.ret.relevantContext.entities = 1
  /\ Len(Entities) = 1
  /\ Len(Relations) = 1

\* the number of records of the chain store of a file
CountThoughts(file) ==
  StoredThoughts(loadThinking(file), DOMAIN loadThinking(file))

\* C19: a valid request that retrieves under a topic while the graph search
\* fails does not fail: it gets a success response and its thought is appended
\* to the chain store.
C19_RetrievalBestEffort ==
  [][(/\ last'.op = "processThought"
      /\ validateInput(last'.arg) = ""
      /\ Retrieves(last'.arg)
      /\ last'.faults = {"searchNodes"})
     =>
       /\ Succeeded(last'.ret)
       /\ CountThoughts(thinkingFile') = CountThoughts(thinkingFile) + 1
  ]_vars

\* the awaited calls the request gets to, in order, when none fails
Attempted(request) ==
  IF validateInput(request) # "" THEN {}
  ELSE {"storeThought"}
         \cup (IF Retrieves(request) THEN {"searchNodes"} ELSE {})
         \cup (IF Stores(request) THEN GraphWrites ELSE {})

\* C20: processThought answers every request.  When validation fails or an
\* awaited call that the request gets to fails, the response is exactly
\* {error: message, status: "failed"} with isError true, the message being
\* that of the validation error or of the failed call; otherwise the response
\* is the success response, which has no isError field.
C20_ErrorsBecomeFailureResponses ==
  [][last'.op = "processThought" =>
       LET request == last'.arg
           failed == validateInput(request) # ""
                       \/ last'.faults \cap Attempted(request) # {}
       IN  IF failed
           THEN /\ DOMAIN last'.ret = {"isError", "error", "status"}
                /\ last'.ret.isError = TRUE
                /\ last'.ret.status = "failed"
                /\ last'.ret.error = IF validateInput(request) # ""
                                     THEN validateInput(request) ELSE IOError
           ELSE /\ DOMAIN last'.ret = {"thoughtNumber", "totalThoughts",
                                       "nextThoughtNeeded", "thoughtChainId",
                                       "relevantContext", "contextStored"}
                /\ last'.ret.thoughtChainId \in DOMAIN loadThinking(thinkingFile')
  ]_vars

\* a failure response to a request whose second graph write failed after the
\* thought and the entity had been written
C20_Witness ==
  /\ last.op = "processThought"
  /\ last.faults = {"createRelations"}
  /\ Stores(last.arg)
  /\ last.ret.isError = TRUE
  /\ last.ret.error = IOError
  /\ last.appended
  /\ Len(Entities) = 1
  /\ Len(Relations) = 0

\* new is old with one record of the request at its end
GrewByOne(old, new, request) ==
  /\ Len(new) = Len(old) + 1
  /\ SubSeq(new, 1, Len(old)) = old
  /\ StoredFrom(new[Len(new)], request)

\* the chains whose main line differs between the two stores
ChangedMainLines(before, after) ==
  {id \in DOMAIN after : after[id].thoughts # ThoughtsOf(before, id)}

\* the branches, by chain and key, that differ between the two stores
ChangedBranches(before, after) ==
  UNION {{<<id, b>> : b \in {k \in DOMAIN after[id].branches :
                               after[id].branches[k] # BranchOf(before, id, k)}} :
           id \in DOMAIN after}

\* no chain and no branch of the first store is missing from the second
NothingRemoved(before, after) ==
  /\ DOMAIN before \subseteq DOMAIN after
  /\ \A id \in DOMAIN before : DOMAIN before[id].branches \subseteq DOMAIN after[id].branches

\* exactly one sequence of the store, a main line or a branch, grew by one
\* record of the request; every other sequence is as it was
ExactlyOneAppended(before, after, request) ==
  /\ NothingRemoved(before, after)
  /\ Cardinality(ChangedMainLines(before, after))
       + Cardinality(ChangedBranches(before, after)) = 1
  /\ \A id \in ChangedMainLines(before, after) :
        GrewByOne(ThoughtsOf(before, id), after[id].thoughts, request)
  /\ \A p \in ChangedBranches(before, after) :
        GrewByOne(BranchOf(before, p[1], p[2]), after[p[1]].branches[p[2]], request)

\* C17: every request that gets a success response has appended exactly one
\* record to the chain store, to the main line or to one branch of one chain,
\* whatever its storeInMemory, retrieveFromMemory and context; and in every
\* step the number of stored records grows by one if the request's chain
\* append ran to completion and stays as it was otherwise, so that the number
\* of stored records is the number of requests whose append completed.
C17_AppendIsUnconditional ==
  [][last'.op = "processThought" =>
       LET before == loadThinking(thinkingFile)
           after == loadThinking(thinkingFile')
       IN  /\ Succeeded(last'.ret) => last'.appended
           /\ last'.appended => ExactlyOneAppended(before, after, last'.arg)
           /\ ~last'.appended => thinkingFile' = thinkingFile
           /\ CountThoughts(thinkingFile')
                = CountThoughts(thinkingFile) + (IF last'.appended THEN 1 ELSE 0)
  ]_vars

\* three records in the store after three appends, the last a branch thought
\* under a topic, answered with a success response
C17_Witness ==
  /\ last.op = "processThought"
  /\ Succeeded(last.ret)
  /\ Stores(last.arg)
  /\ truthyNumber(last.arg, "branchFromThought")
  /\ CountThoughts(thinkingFile) = 3
  /\ \E id \in DOMAIN Chains :
        /\ Len(Chains[id].thoughts) = 2
        /\ DOMAIN Chains[id].branches = {id}
        /\ Len(Chains[id].branches[id]) = 1

\* C21: a request that fails in validation or in retrieval leaves the memory
\* file and the thinking file as they were; a request whose graph write fails
\* after storeThought completed gets the failure response, and the record it
\* appended is in the chain store.
C21_FailureAtomicity ==
  [][last'.op = "processThought" =>
       LET request == last'.arg
           invalid == validateInput(request) # ""
           before == loadThinking(thinkingFile)
           after == loadThinking(thinkingFile')
       IN  /\ (invalid \/ (Retrieves(request) /\ "searchNodes" \in last'.faults)) =>
                /\ ~Succeeded(last'.ret)
                /\ memoryFile' = memoryFile
                /\ thinkingFile' = thinkingFile
           /\ (~invalid /\ Stores(request) /\ last'.faults \subseteq GraphWrites
                 /\ last'.faults # {}) =>
                /\ ~Succeeded(last'.ret)
                /\ ExactlyOneAppended(before, after, request)
  ]_vars

\* the first graph write failed: a failure response, one record in the chain
\* store and no line in the memory file
C21_Witness ==
  /\ last.op = "processThought"
  /\ last.faults = {"createEntities"}
  /\ Stores(last.arg)
  /\ ~Succeeded(last.ret)
  /\ CountThoughts(thinkingFile) = 1
  /\ Len(Entities) = 0
  /\ Len(Relations) = 0

\* every sequence of the first store is the beginning of the same sequence of
\* the second
HistoryKept(before, after) ==
  /\ NothingRemoved(before, after)
  /\ \A id \in DOMAIN before :
        /\ IsPrefix(before[id].thoughts, after[id].thoughts)
        /\ \A b \in DOMAIN before[id].branches :
              IsPrefix(before[id].branches[b], after[id].branches[b])

\* C22: no request changes, reorders or removes a stored record: every main
\* line and every branch of the store before a step is the beginning of the
\* same sequence after it.  A request with isRevision true and revisesThought
\* N appends one record that carries the two fields, and leaves record N of
\* its chain as it was.
C22_StoredHistoryImmutable ==
  [][LET before == loadThinking(thinkingFile)
         after == loadThinking(thinkingFile')
     IN  /\ HistoryKept(before, after)
         /\ (/\ last'.op = "processThought"
             /\ Succeeded(last'.ret)
             /\ truthyBoolean(last'.arg, "isRevision")
             /\ truthyNumber(last'.arg, "revisesThought")) =>
              LET id == last'.ret.thoughtChainId
                  N == last'.arg.revisesThought
              IN  /\ ExactlyOneAppended(before, after, last'.arg)
                  /\ GrewByOne(ThoughtsOf(before, id), after[id].thoughts, last'.arg)
                  /\ after[id].thoughts[Len(after[id].thoughts)].isRevision = TRUE
                  /\ after[id].thoughts[Len(after[id].thoughts)].revisesThought = N
                  /\ N \in 1..Len(ThoughtsOf(before, id)) =>
                       after[id].thoughts[N] = before[id].thoughts[N]
  ]_vars

\* a chain whose main line is thought 1 followed by a revision of thought 1,
\* thought 1 still as it was sent
C22_Witness ==
  /\ last.op = "processThought"
  /\ Succeeded(last.ret)
  /\ truthyBoolean(last.arg, "isRevision")
  /\ LET thoughts == Chains[last.ret.thoughtChainId].thoughts
     IN  /\ Len(thoughts) = 2
         /\ ~Has(thoughts[1], "isRevision")
         /\ thoughts[1].thought = ObsX
         /\ thoughts[2].isRevision = TRUE
         /\ thoughts[2].revisesThought = 1
         /\ thoughts[2].thought = ObsB

(***************************************************************************)
(* Properties of overlapping calls.                                        *)
(***************************************************************************)
\* c wrote first and d wrote last, both on the same file, and d had loaded
\* the file before c wrote
WroteOver(d, c) ==
  /\ c # d
  /\ inflight[c].pc = "done" /\ inflight[d].pc = "done"
  /\ sameFile(inflight[c].op, inflight[d].op)
  /\ ~inflight[c].stale /\ inflight[d].stale

\* the call returned what a successful call returns: the appended items, or
\* the id of the chain
Returned(call) ==
  IF call.op = "storeThought"
  THEN IF truthyString(call.arg, "branchId") THEN call.ret = call.arg.branchId
       ELSE call.ret \in GenIds
  ELSE IsPrefix(call.ret, call.arg)

\* the graph of the file holds the item a graph call appends
HoldsLine(file, op, line) ==
  IF op = "createEntities" THEN HoldsEntity(file, line) ELSE HoldsRelation(file, line)

\* the items a graph call returned that its rival neither loaded nor added
OwnLines(call, rival) ==
  {line \in Elements(call.ret) :
     /\ ~HoldsLine(rival.loaded, call.op, line)
     /\ rival.op = call.op => line \notin Elements(rival.arg)}

\* the earlier writer's change is not in the file
Lost(call, rival) ==
  IF call.op = "storeThought"
  THEN /\ CountThoughts(thinkingFile) = CountThoughts(rival.loaded) + 1
       /\ call.ret # rival.ret /\ call.ret \notin DOMAIN loadThinking(rival.loaded)
            => call.ret \notin DOMAIN Chains
  ELSE \A line \in OwnLines(call, rival) : ~HoldsLine(memoryFile, call.op, line)

\* C23: when two server processes run store mutations on the same file and
\* the later writer had loaded the file before the earlier writer wrote, both
\* calls have returned as successful calls do and the file is the later
\* writer's rewrite of what it loaded: it lacks the earlier writer's change
C23_LostUpdate ==
  \A c \in Callers, d \in Callers :
    WroteOver(d, c) =>
      /\ Returned(inflight[c]) /\ Returned(inflight[d])
      /\ Lost(inflight[c], inflight[d])

\* two storeThought calls without branchId overlapped: both returned the id
\* of a new chain, and the file holds only the later writer's chain
C23_Witness ==
  \E c \in Callers, d \in Callers :
    /\ WroteOver(d, c)
    /\ inflight[c].op = "storeThought"
    /\ inflight[c].arg = PlainRequest /\ inflight[d].arg = PlainRequest
    /\ inflight[c].ret \in GenIds /\ inflight[d].ret \in GenIds
    /\ DOMAIN Chains = {inflight[d].ret}
    /\ inflight[c].ret # inflight[d].ret

\* the request has started and has not been answered
InFlight(c) == inflight[c].pc \notin {"idle", "done"}

\* C24: within one server process requests are serialized: no step of a
\* request begins while another request has started and has not been
\* answered, so two requests are never in flight together
C24_RequestsSerialized ==
  \A c \in Callers, d \in Callers : InFlight(c) /\ InFlight(d) => c = d

(***************************************************************************)
(* Properties of the clock fields.                                         *)
(***************************************************************************)
\* C25: an append to a chain that exists leaves the chain's updatedAt
\* strictly greater than the append before it left it, and its createdAt
\* unchanged
C25_UpdatedAtStrictlyIncreases ==
  [][(last'.op = "processThought" /\ last'.appended
        /\ last'.ret.thoughtChainId \in DOMAIN Chains) =>
       LET id == last'.ret.thoughtChainId
           after == loadThinking(thinkingFile')
       IN  /\ after[id].updatedAt > Chains[id].updatedAt
           /\ after[id].createdAt = Chains[id].createdAt
  ]_vars

(***************************************************************************)
(* Properties of the response fields.                                      *)
(***************************************************************************)
\* C26: in a success response contextStored is true exactly when the request
\* had storeInMemory true and a context, and then the graph holds an entity
\* named context and the relation from it to "ThoughtChain_" + thoughtChainId
C26_ContextStoredMeansWritten ==
  (last.op = "processThought" /\ Succeeded(last.ret)) =>
    /\ last.ret.contextStored <=> Stores(last.arg)
    /\ last.ret.contextStored =>
         /\ NameIn(Entities, last.arg.context)
         /\ HoldsRelation(memoryFile,
               [from |-> last.arg.context,
                to |-> ThoughtChainPrefix \o last.ret.thoughtChainId,
                relationType |-> HasThinkingProcess])

(***************************************************************************)
(* Properties of the wrapper.                                              *)
(***************************************************************************)
\* C27: a start through the wrapper leaves a memory file that saveGraph has
\* written unchanged, so loadGraph returns the same entities and relations
\* after the start as before it
C27_RestartKeepsGraph ==
  [][(last'.op = "wrapper" /\ memoryFile.exists /\ memoryFile.lines # <<>>) =>
       /\ memoryFile' = memoryFile
       /\ loadGraph(memoryFile') = loadGraph(memoryFile)
  ]_vars

(***************************************************************************)
(* Properties of retrieval.                                                *)
(***************************************************************************)
\* C28: in a success response relevantContext is null unless the request had
\* retrieveFromMemory true and a context, and otherwise holds the numbers of
\* entities and relations of searchNodes(context) on the graph as it was
\* before the request, whatever the request stored itself
C28_RetrievalPrecedesStorage ==
  [][(last'.op = "processThought" /\ Succeeded(last'.ret)) =>
       IF Retrieves(last'.arg)
       THEN LET found == searchNodes(memoryFile, last'.arg.context)
            IN  /\ ~Has(last'.ret.relevantContext, "null")
                /\ last'.ret.relevantContext.entities = Len(found.entities)
                /\ last'.ret.relevantContext.relations = Len(found.relations)
       ELSE Has(last'.ret.relevantContext, "null")
  ]_vars

\* a request that retrieved and stored on an empty graph: it reports no entity
\* and no relation, and the graph now holds the entity its query matches
C28_Witness ==
  /\ last.op = "processThought" /\ Succeeded(last.ret)
  /\ Retrieves(last.arg) /\ Stores(last.arg)
  /\ ~Has(last.ret.relevantContext, "null")
  /\ last.ret.relevantContext.entities = 0
  /\ last.ret.relevantContext.relations = 0
  /\ Len(searchNodes(memoryFile, last.arg.context).entities) = 1
  /\ Len(Relations) = 1

(***************************************************************************)
(* Properties of the chain ids.                                            *)
(***************************************************************************)
\* the thought was stored by a request that passed this id as branchId
PassedBack(thought, id) == truthyString(thought, "branchId") /\ thought.branchId = id

====
